---- MODULE Spec2Model ----
(***************************************************************************)
(* xlang: lexer (Lexer.lex), recursive-descent parser (AST.parse) and      *)
(* tree-walking evaluator (Interpreter.run), as wired by the entry point   *)
(*   new Interpreter(new AST(new Lexer(code).lex()).parse()).run()         *)
(*                                                                         *)
(* JavaScript values are records tagged by the field js; AST nodes are     *)
(* records tagged by the field type, as in the source.  A missing child    *)
(* (null) is the record Null.                                              *)
(***************************************************************************)
EXTENDS Integers, Sequences, FiniteSets, TLC

VARIABLES
    pc,        \* position of the entry point: "lex", "parse", "run", "exit", "threw"
    lexer,     \* the Lexer instance: source, current, line, column, tokens, start
    parser,    \* the AST instance: tokens, current; and parse()'s local statements
    console,   \* lines written by console.error / console.log
    heap,      \* the Map objects (Interpreter.identifiers), by reference
    stack,     \* the host call stack of Interpreter method activations
    ret,       \* the value returned by the activation that finished last
    calls,     \* per active user-function call: the caller's Map as it was at the call
    thrown     \* the uncaught Error that ended the program, or NoError

vars == <<pc, lexer, parser, console, heap, stack, ret, calls, thrown>>

---------------------------------------------------------------------------
(* Bounds of the checked instances *)

MaxSrcLen == 3
MaxTokens == 6
MaxDepth == 3
MaxStmts == 2
MaxOperandTokens == 4

---------------------------------------------------------------------------
(* JavaScript values *)

Undefined == [js |-> "undefined"]
Null == [js |-> "null"]
Bool(b) == [js |-> "boolean", val |-> b]
\* a string value holds its characters as a sequence
Str(chars) == [js |-> "string", val |-> chars]
\* a number is num/den in lowest terms (cls "finite"), or NaN, Infinity, -Infinity
Number(n, d) == [js |-> "number", cls |-> "finite", num |-> n, den |-> d]
Int32(n) == Number(n, 1)
NaN == [js |-> "number", cls |-> "NaN", num |-> 0, den |-> 1]
Infinity == [js |-> "number", cls |-> "Infinity", num |-> 1, den |-> 1]
\* console.log, the host function bound to print, is [js |-> "function", name |-> "log"];
\* an AST node held as a value (a function declaration statement) is
\* [js |-> "object", node |-> node]

NoError == [name |-> "none"]
Error(message) == [name |-> "Error", message |-> message]

---------------------------------------------------------------------------
(* types.ts: enum TokenType *)

\* the members in declaration order; a numeric enum numbers them from 0
TokenTypeNames ==
    <<"EOF", "BANG", "BANG_EQUAL", "EQUAL", "EQUAL_EQUAL", "GREATER", "GREATER_EQUAL",
      "LESS", "LESS_EQUAL", "IDENTIFIER", "STRING", "NUMBER",
      "AND", "ELSE", "FALSE", "FOR", "IF", "NULL", "OR", "RETURN", "THIS", "TRUE",
      "VAR", "WHILE", "MOD", "ARROW", "FUN",
      "LEFT_PAREN", "RIGHT_PAREN", "LEFT_BRACE", "RIGHT_BRACE", "COMMA", "DOT",
      "MINUS", "PLUS", "SEMICOLON", "SLASH", "STAR", "INCREMENT", "DECREMENT">>

TokenType ==
    [name \in {TokenTypeNames[i] : i \in DOMAIN TokenTypeNames} |->
        (CHOOSE i \in DOMAIN TokenTypeNames : TokenTypeNames[i] = name) - 1]

Token(type, lexeme, literal, line, column) ==
    [type |-> type, lexeme |-> lexeme, literal |-> literal, line |-> line, column |-> column]

---------------------------------------------------------------------------
(* Characters and strings of the host *)

LowerCase == <<"a", "b", "c", "d", "e", "f", "g", "h", "i", "j", "k", "l", "m",
               "n", "o", "p", "q", "r", "s", "t", "u", "v", "w", "x", "y", "z">>
UpperCase == <<"A", "B", "C", "D", "E", "F", "G", "H", "I", "J", "K", "L", "M",
               "N", "O", "P", "Q", "R", "S", "T", "U", "V", "W", "X", "Y", "Z">>
Digits == <<"0", "1", "2", "3", "4", "5", "6", "7", "8", "9">>

Range(s) == {s[i] : i \in DOMAIN s}

RECURSIVE Join(_)
Join(chars) == IF chars = <<>> THEN "" ELSE Head(chars) \o Join(Tail(chars))

\* String.prototype.toUpperCase on a sequence of characters
toUpperCase(chars) ==
    Join([i \in DOMAIN chars |->
             IF \E k \in DOMAIN LowerCase : LowerCase[k] = chars[i]
             THEN UpperCase[CHOOSE k \in DOMAIN LowerCase : LowerCase[k] = chars[i]]
             ELSE chars[i]])

\* String.prototype.substring(a, b) as a sequence of characters
substring(source, a, b) == SubSeq(source, a + 1, b)

RECURSIVE Gcd(_, _)
Gcd(a, b) == IF b = 0 THEN a ELSE Gcd(b, a % b)

Abs(n) == IF n < 0 THEN -n ELSE n

\* the number num/den (den > 0) in lowest terms
Ratio(n, d) ==
    LET g == Gcd(Abs(n), d)
    IN Number(n \div g, d \div g)

RECURSIVE DigitsValue(_)
DigitsValue(chars) ==
    IF chars = <<>> THEN 0
    ELSE 10 * DigitsValue(SubSeq(chars, 1, Len(chars) - 1)) 
         + (CHOOSE i \in DOMAIN Digits : Digits[i] = chars[Len(chars)]) - 1

RECURSIVE Pow10(_)
Pow10(n) == IF n = 0 THEN 1 ELSE 10 * Pow10(n - 1)

\* parseFloat of a lexeme digits[.digits]
parseFloat(chars) ==
    LET dots == {i \in DOMAIN chars : chars[i] = "."}
    IN IF dots = {} THEN Int32(DigitsValue(chars))
       ELSE LET dot == CHOOSE i \in dots : TRUE
                whole == SubSeq(chars, 1, dot - 1)
                frac == SubSeq(chars, dot + 1, Len(chars))
            IN Ratio(DigitsValue(whole \o frac), Pow10(Len(frac)))

---------------------------------------------------------------------------
(* Lexer *)

NewLexer(source) ==
    [source |-> source, current |-> 0, line |-> 1, column |-> 1, tokens |-> <<>>, start |-> 0]

Lexer_charAt(lx, i) == IF i >= 0 /\ i < Len(lx.source) THEN lx.source[i + 1] ELSE ""

Lexer_isAtEnd(lx) == lx.current >= Len(lx.source)

Lexer_peek(lx) == IF Lexer_isAtEnd(lx) THEN "\\0" ELSE Lexer_charAt(lx, lx.current)

Lexer_peekNext(lx) ==
    IF lx.current + 1 >= Len(lx.source) THEN "\\0" ELSE Lexer_charAt(lx, lx.current + 1)

\* advance(): the character it returns is Lexer_charAt(lx', lx'.current - 1)
Lexer_advance(lx) == [lx EXCEPT !.current = @ + 1, !.column = @ + 1]

\* match(expected): whether it matched, and the lexer after it
Lexer_matches(lx, expected) ==
    ~Lexer_isAtEnd(lx) /\ Lexer_charAt(lx, lx.current) = expected

Lexer_match(lx, expected) ==
    IF Lexer_matches(lx, expected) THEN [lx EXCEPT !.current = @ + 1] ELSE lx

Lexer_addToken(lx, type, literal) ==
    LET text == Join(substring(lx.source, lx.start, lx.current))
    IN [lx EXCEPT !.tokens = Append(@, Token(type, text, literal, lx.line, lx.column))]

Lexer_isDigit(c) == c \in Range(Digits)

Lexer_isAlpha(c) == c \in Range(LowerCase) \cup Range(UpperCase) \cup {"_"}

Lexer_isAlphaNumeric(c) == Lexer_isAlpha(c) \/ Lexer_isDigit(c)

\* TokenType[text.toUpperCase()] ?? TokenType["IDENTIFIER"]: the enum object maps every
\* member name to its number (and every number, as a string, to its name; no
\* identifier starts with a digit); ?? replaces only null and undefined, not 0
Lexer_identifierType(text) ==
    LET key == toUpperCase(text)
    IN IF key \in DOMAIN TokenType THEN TokenType[key] ELSE TokenType["IDENTIFIER"]

RECURSIVE Lexer_whileAlphaNumeric(_)
Lexer_whileAlphaNumeric(lx) ==
    IF Lexer_isAlphaNumeric(Lexer_peek(lx)) THEN Lexer_whileAlphaNumeric(Lexer_advance(lx)) ELSE lx

Lexer_identifier(lx) ==
    LET l1 == Lexer_whileAlphaNumeric(lx)
        text == substring(l1.source, l1.start, l1.current)
    IN Lexer_addToken(l1, Lexer_identifierType(text), Undefined)

RECURSIVE Lexer_whileDigit(_)
Lexer_whileDigit(lx) ==
    IF Lexer_isDigit(Lexer_peek(lx)) THEN Lexer_whileDigit(Lexer_advance(lx)) ELSE lx

Lexer_number(lx) ==
    LET l1 == Lexer_whileDigit(lx)
        l2 == IF Lexer_peek(l1) = "." /\ Lexer_isDigit(Lexer_peekNext(l1))
              THEN Lexer_whileDigit(Lexer_advance(l1))
              ELSE l1
    IN Lexer_addToken(l2, TokenType["NUMBER"], parseFloat(substring(l2.source, l2.start, l2.current)))

RECURSIVE Lexer_whileNotQuote(_)
Lexer_whileNotQuote(lx) ==
    IF Lexer_peek(lx) # "\"" /\ ~Lexer_isAtEnd(lx)
    THEN Lexer_whileNotQuote(
             Lexer_advance(IF Lexer_peek(lx) = "\n" THEN [lx EXCEPT !.line = @ + 1] ELSE lx))
    ELSE lx

\* string(): the lexer after it and the Error it throws, if any
Lexer_string(lx) ==
    LET l1 == Lexer_whileNotQuote(lx)
    IN IF Lexer_isAtEnd(l1)
       THEN [lexer |-> l1,
             error |-> [name |-> "Error", message |-> "Unterminated string",
                        line |-> l1.line, column |-> l1.column]]
       ELSE LET l2 == Lexer_advance(l1)
                value == substring(l2.source, l2.start + 1, l2.current - 1)
            IN [lexer |-> Lexer_addToken(l2, TokenType["STRING"], Str(value)), error |-> NoError]

RECURSIVE Lexer_whileNotNewline(_)
Lexer_whileNotNewline(lx) ==
    IF Lexer_peek(lx) # "\n" /\ ~Lexer_isAtEnd(lx)
    THEN Lexer_whileNotNewline(Lexer_advance(lx))
    ELSE lx

Lexer_oneOrTwo(lx, second, two, one) ==
    Lexer_addToken(Lexer_match(lx, second), IF Lexer_matches(lx, second) THEN two ELSE one, Undefined)

\* scanToken(): the lexer after it and the Error it throws, if any
Lexer_scanToken(lx0) ==
    LET lx == Lexer_advance(lx0)
        c == Lexer_charAt(lx, lx.current - 1)
        ok(l) == [lexer |-> l, error |-> NoError]
        single(type) == ok(Lexer_addToken(lx, type, Undefined))
    IN CASE c = "(" -> single(TokenType["LEFT_PAREN"])
         [] c = ")" -> single(TokenType["RIGHT_PAREN"])
         [] c = "{" -> single(TokenType["LEFT_BRACE"])
         [] c = "}" -> single(TokenType["RIGHT_BRACE"])
         [] c = "," -> single(TokenType["COMMA"])
         [] c = "." -> single(TokenType["DOT"])
         [] c = "-" -> single(TokenType["MINUS"])
         [] c = "+" -> single(TokenType["PLUS"])
         [] c = ";" -> single(TokenType["SEMICOLON"])
         [] c = "*" -> single(TokenType["STAR"])
         [] c = "%" -> single(TokenType["MOD"])
         [] c = "!" -> ok(Lexer_oneOrTwo(lx, "=", TokenType["BANG_EQUAL"], TokenType["BANG"]))
         [] c = "=" ->
              IF Lexer_matches(lx, ">")
              THEN ok(Lexer_addToken(Lexer_match(lx, ">"), TokenType["ARROW"], Undefined))
              ELSE ok(Lexer_oneOrTwo(lx, "=", TokenType["EQUAL_EQUAL"], TokenType["EQUAL"]))
         [] c = "<" -> ok(Lexer_oneOrTwo(lx, "=", TokenType["LESS_EQUAL"], TokenType["LESS"]))
         [] c = ">" -> ok(Lexer_oneOrTwo(lx, "=", TokenType["GREATER_EQUAL"], TokenType["GREATER"]))
         [] c = "/" ->
              IF Lexer_matches(lx, "/")
              THEN ok(Lexer_whileNotNewline(Lexer_match(lx, "/")))
              ELSE single(TokenType["SLASH"])
         [] c \in {" ", "\r", "\t"} -> ok(lx)
         [] c = "\n" -> ok([lx EXCEPT !.line = @ + 1, !.column = 1])
         [] c = "\"" -> Lexer_string(lx)
         [] OTHER ->
              IF Lexer_isDigit(c) THEN ok(Lexer_number(lx))
              ELSE IF Lexer_isAlpha(c) THEN ok(Lexer_identifier(lx))
              ELSE [lexer |-> lx,
                    error |-> [name |-> "Error", message |-> "Unexpected character",
                               line |-> lx.line, column |-> lx.column]]

---------------------------------------------------------------------------
(* AST: the recursive-descent parser.  A parser state a holds the instance's *)
(* tokens and current and the console it writes to; every rule yields the   *)
(* node it returns, the state after it and whether it threw.                *)

NewAST(tokens) == [tokens |-> tokens, current |-> 0, statements |-> <<>>]

Ok(node, a) == [frames |-> <<>>, node |-> node, ast |-> a, threw |-> FALSE]
Recovered(a) == [frames |-> <<>>, node |-> Null, ast |-> a, threw |-> FALSE]
Threw(a) == [frames |-> <<>>, node |-> Null, ast |-> a, threw |-> TRUE]

AST_peek(a) == a.tokens[a.current + 1]

AST_previous(a) == a.tokens[a.current]

AST_isAtEnd(a) == AST_peek(a).type = TokenType["EOF"]

AST_check(a, type) == IF AST_isAtEnd(a) THEN FALSE ELSE AST_peek(a).type = type

AST_advance(a) == IF ~AST_isAtEnd(a) THEN [a EXCEPT !.current = @ + 1] ELSE a

\* match(...types): whether one of the types matched, and the state after it
AST_matches(a, types) == \E type \in types : AST_check(a, type)

AST_match(a, types) == IF AST_matches(a, types) THEN AST_advance(a) ELSE a

\* error(token, message): console.error, then the caller gets new Error()
AST_error(a, token, message) ==
    [a EXCEPT !.console = Append(@, [line |-> token.line, column |-> token.column,
                                      lexeme |-> token.lexeme, message |-> message])]

AST_consume(a, type, message) ==
    IF AST_check(a, type)
    THEN Ok(AST_previous(AST_advance(a)), AST_advance(a))
    ELSE Threw(AST_error(a, AST_peek(a), message))

(* Each rule is a method of the parser; a call of a rule is an activation  *)
(* [rule, pc, locals] on the parser's call stack.  A rule's definition is   *)
(* what the activation f does when control reaches it with the node r that  *)
(* the rule it called last returned: it calls a rule (Calls), returns a     *)
(* node (Ok) or throws (Threw).                                             *)

Rule(name) == [rule |-> name, pc |-> 0]

Calls(f, callee, a) == [frames |-> <<f, callee>>, node |-> Null, ast |-> a, threw |-> FALSE]

AST_statement(f, r, a) ==
    IF f.pc = 1 THEN Ok(r, a)
    ELSE IF AST_matches(a, {TokenType["VAR"]})
    THEN Calls([f EXCEPT !.pc = 1], Rule("declaration"), AST_advance(a))
    ELSE IF AST_matches(a, {TokenType["IF"]})
    THEN Calls([f EXCEPT !.pc = 1], Rule("ifStatement"), AST_advance(a))
    ELSE IF AST_matches(a, {TokenType["WHILE"]})
    THEN Calls([f EXCEPT !.pc = 1], Rule("whileStatement"), AST_advance(a))
    ELSE IF AST_matches(a, {TokenType["FOR"]})
    THEN Calls([f EXCEPT !.pc = 1], Rule("forStatement"), AST_advance(a))
    ELSE IF AST_matches(a, {TokenType["RETURN"]})
    THEN Calls([f EXCEPT !.pc = 1], Rule("returnStatement"), AST_advance(a))
    ELSE IF AST_matches(a, {TokenType["LEFT_BRACE"]})
    THEN Calls([f EXCEPT !.pc = 1], Rule("blockStatement"), AST_advance(a))
    ELSE IF AST_matches(a, {TokenType["FUN"]})
    THEN Calls([f EXCEPT !.pc = 1], Rule("functionStatement"), AST_advance(a))
    ELSE Calls([f EXCEPT !.pc = 1], Rule("expressionStatement"), a)

AST_primary(f, r, a) ==
    IF f.pc = 1
    THEN LET paren == AST_consume(a, TokenType["RIGHT_PAREN"], "Expected ')' after expression.")
         IN IF paren.threw THEN paren
            ELSE Ok([type |-> "grouping", expression |-> r], paren.ast)
    ELSE IF AST_matches(a, {TokenType["FALSE"]})
    THEN Ok([type |-> "literal", value |-> Bool(FALSE)], AST_advance(a))
    ELSE IF AST_matches(a, {TokenType["TRUE"]})
    THEN Ok([type |-> "literal", value |-> Bool(TRUE)], AST_advance(a))
    ELSE IF AST_matches(a, {TokenType["NULL"]})
    THEN Ok([type |-> "literal", value |-> Null], AST_advance(a))
    ELSE IF AST_matches(a, {TokenType["NUMBER"], TokenType["STRING"]})
    THEN Ok([type |-> "literal", value |-> AST_previous(AST_advance(a)).literal], AST_advance(a))
    ELSE IF AST_matches(a, {TokenType["IDENTIFIER"]})
    THEN Ok([type |-> "identifier", name |-> AST_previous(AST_advance(a))], AST_advance(a))
    ELSE IF AST_matches(a, {TokenType["LEFT_PAREN"]})
    THEN Calls([f EXCEPT !.pc = 1], Rule("expression"), AST_advance(a))
    ELSE LET a1 == AST_match(a, {TokenType["FUN"]})
         IN Threw(AST_error(a1, AST_peek(a1), "Expected expression."))

\* declaration(), from the consume of the ';' on
AST_declarationEnd(name, initializer, a) ==
    LET semi == AST_consume(a, TokenType["SEMICOLON"], "Expected ';' after declaration.")
    IN IF semi.threw THEN semi
       ELSE Ok([type |-> "variable", name |-> name, initializer |-> initializer], semi.ast)

AST_declaration(f, r, a) ==
    IF f.pc = 1 THEN AST_declarationEnd(f.name, r, a)
    ELSE LET name == AST_consume(a, TokenType["IDENTIFIER"], "Expected name.")
         IN IF name.threw THEN name
            ELSE IF AST_matches(name.ast, {TokenType["EQUAL"]})
            THEN Calls([rule |-> f.rule, pc |-> 1, name |-> name.node], Rule("expression"),
                       AST_advance(name.ast))
            ELSE AST_declarationEnd(name.node, Null, name.ast)

AST_ifStatement(f, r, a) ==
    IF f.pc = 0
    THEN LET open == AST_consume(a, TokenType["LEFT_PAREN"], "Expected '(' after 'if'.")
         IN IF open.threw THEN open
            ELSE Calls([f EXCEPT !.pc = 1], Rule("expression"), open.ast)
    ELSE IF f.pc = 1
    THEN LET close == AST_consume(a, TokenType["RIGHT_PAREN"],
                                  "Expected ')' after if condition.")
         IN IF close.threw THEN close
            ELSE Calls([rule |-> f.rule, pc |-> 2, condition |-> r], Rule("statement"),
                       close.ast)
    ELSE IF f.pc = 2
    THEN IF AST_matches(a, {TokenType["ELSE"]})
         THEN Calls([rule |-> f.rule, pc |-> 3, condition |-> f.condition, thenBranch |-> r],
                    Rule("statement"), AST_advance(a))
         ELSE Ok([type |-> "if", condition |-> f.condition, thenBranch |-> r,
                  elseBranch |-> Null], a)
    ELSE Ok([type |-> "if", condition |-> f.condition, thenBranch |-> f.thenBranch,
             elseBranch |-> r], a)

AST_whileStatement(f, r, a) ==
    IF f.pc = 0
    THEN LET open == AST_consume(a, TokenType["LEFT_PAREN"], "Expected '(' after 'while'.")
         IN IF open.threw THEN open
            ELSE Calls([f EXCEPT !.pc = 1], Rule("expression"), open.ast)
    ELSE IF f.pc = 1
    THEN LET close == AST_consume(a, TokenType["RIGHT_PAREN"],
                                  "Expected ')' after while condition.")
         IN IF close.threw THEN close
            ELSE Calls([rule |-> f.rule, pc |-> 2, condition |-> r], Rule("statement"),
                       close.ast)
    ELSE Ok([type |-> "while", condition |-> f.condition, body |-> r], a)

\* forStatement(), from the consume of the ')' on
AST_forBody(initializer, condition, increment, a) ==
    LET close == AST_consume(a, TokenType["RIGHT_PAREN"], "Expected ')' after for clauses.")
    IN IF close.threw THEN close
       ELSE Calls([rule |-> "forStatement", pc |-> 4, initializer |-> initializer,
                   condition |-> condition, increment |-> increment],
                  Rule("statement"), close.ast)

\* forStatement(), from the consume of the second ';' on
AST_forIncrement(initializer, condition, a) ==
    LET semi == AST_consume(a, TokenType["SEMICOLON"], "Expected ';' after loop condition.")
    IN IF semi.threw THEN semi
       ELSE IF ~AST_check(semi.ast, TokenType["RIGHT_PAREN"])
       THEN Calls([rule |-> "forStatement", pc |-> 3, initializer |-> initializer,
                   condition |-> condition], Rule("expression"), semi.ast)
       ELSE AST_forBody(initializer, condition, Null, semi.ast)

\* forStatement(), from let condition = null on
AST_forCondition(initializer, a) ==
    IF ~AST_check(a, TokenType["SEMICOLON"])
    THEN Calls([rule |-> "forStatement", pc |-> 2, initializer |-> initializer],
               Rule("expression"), a)
    ELSE AST_forIncrement(initializer, Null, a)

AST_forStatement(f, r, a) ==
    IF f.pc = 0
    THEN LET open == AST_consume(a, TokenType["LEFT_PAREN"], "Expected '(' after 'for'.")
         IN IF open.threw THEN open
            ELSE IF AST_matches(open.ast, {TokenType["SEMICOLON"]})
            THEN AST_forCondition(Null, AST_advance(open.ast))
            ELSE IF AST_matches(open.ast, {TokenType["VAR"]})
            THEN Calls([f EXCEPT !.pc = 1], Rule("declaration"), AST_advance(open.ast))
            ELSE Calls([f EXCEPT !.pc = 1], Rule("expressionStatement"), open.ast)
    ELSE IF f.pc = 1 THEN AST_forCondition(r, a)
    ELSE IF f.pc = 2 THEN AST_forIncrement(f.initializer, r, a)
    ELSE IF f.pc = 3 THEN AST_forBody(f.initializer, f.condition, r, a)
    ELSE Ok([type |-> "for", initializer |-> f.initializer, condition |-> f.condition,
             increment |-> f.increment, body |-> r], a)

\* do { params.push(consume(IDENTIFIER)) } while (match(COMMA)); the node is the list
RECURSIVE AST_paramsLoop(_, _)
AST_paramsLoop(a, params) ==
    LET param == AST_consume(a, TokenType["IDENTIFIER"], "Expected parameter name.")
    IN IF param.threw THEN param
       ELSE IF AST_matches(param.ast, {TokenType["COMMA"]})
       THEN AST_paramsLoop(AST_advance(param.ast), Append(params, param.node))
       ELSE Ok(Append(params, param.node), param.ast)

\* functionStatement(), from the consume of the ')' on
AST_functionBody(name, params, a) ==
    LET close == AST_consume(a, TokenType["RIGHT_PAREN"],
                             "Expected ')' after function parameters.")
        brace == AST_consume(close.ast, TokenType["LEFT_BRACE"],
                             "Expected '{' before function body.")
    IN IF close.threw THEN close
       ELSE IF brace.threw THEN brace
       ELSE Calls([rule |-> "functionStatement", pc |-> 1, name |-> name, params |-> params],
                  Rule("blockStatement"), brace.ast)

AST_functionStatement(f, r, a) ==
    IF f.pc = 1
    THEN Ok([type |-> "function", name |-> f.name, params |-> f.params, body |-> r], a)
    ELSE LET name == AST_consume(a, TokenType["IDENTIFIER"], "Expected function name.")
             open == AST_consume(name.ast, TokenType["LEFT_PAREN"],
                                 "Expected '(' after function name.")
             params == IF ~AST_check(open.ast, TokenType["RIGHT_PAREN"])
                       THEN AST_paramsLoop(open.ast, <<>>)
                       ELSE Ok(<<>>, open.ast)
         IN IF name.threw THEN name
            ELSE IF open.threw THEN open
            ELSE IF params.threw THEN params
            ELSE AST_functionBody(name.node, params.node, params.ast)

\* returnStatement(), from the consume of the ';' on
AST_returnEnd(keyword, value, a) ==
    LET semi == AST_consume(a, TokenType["SEMICOLON"], "Expected ';' after return value.")
    IN IF semi.threw THEN semi
       ELSE Ok([type |-> "return", keyword |-> keyword, value |-> value], semi.ast)

AST_returnStatement(f, r, a) ==
    IF f.pc = 1 THEN AST_returnEnd(f.keyword, r, a)
    ELSE IF ~AST_check(a, TokenType["SEMICOLON"])
    THEN Calls([rule |-> f.rule, pc |-> 1, keyword |-> AST_previous(a)], Rule("expression"), a)
    ELSE AST_returnEnd(AST_previous(a), Null, a)

\* a block that parses its children with statement()
AST_blockLoopStatement(statements, a) ==
    IF ~AST_check(a, TokenType["RIGHT_BRACE"]) /\ ~AST_isAtEnd(a)
    THEN Calls([rule |-> "blockStatement", pc |-> 1, statements |-> statements],
               Rule("statement"), a)
    ELSE LET brace == AST_consume(a, TokenType["RIGHT_BRACE"], "Expected '}' after block.")
         IN IF brace.threw THEN brace
            ELSE Ok([type |-> "block", statements |-> statements], brace.ast)

\* blockStatement(): the test of the while loop and what follows it
AST_blockLoop(statements, a) ==
    IF ~AST_check(a, TokenType["RIGHT_BRACE"]) /\ ~AST_isAtEnd(a)
    THEN Calls([rule |-> "blockStatement", pc |-> 1, statements |-> statements],
               Rule("expressionStatement"), a)
    ELSE LET brace == AST_consume(a, TokenType["RIGHT_BRACE"], "Expected '}' after block.")
         IN IF brace.threw THEN brace
            ELSE Ok([type |-> "block", statements |-> statements], brace.ast)

AST_blockStatement(f, r, a) ==
    IF f.pc = 0 THEN AST_blockLoop(<<>>, a) ELSE AST_blockLoop(Append(f.statements, r), a)

AST_expressionStatement(f, r, a) ==
    IF f.pc = 0 THEN Calls([f EXCEPT !.pc = 1], Rule("expression"), a)
    ELSE LET semi == AST_consume(a, TokenType["SEMICOLON"], "Expected ';' after expression.")
         IN IF semi.threw THEN semi
            ELSE Ok([type |-> "expression", expression |-> r], semi.ast)

AST_expression(f, r, a) ==
    IF f.pc = 0 THEN Calls([f EXCEPT !.pc = 1], Rule("assignment"), a) ELSE Ok(r, a)

\* what assignment() does with a target that is no identifier: error(...) is called
\* and its Error dropped, so the rule goes on to return the left-hand side
AST_invalidTarget(a, equals, expression) ==
    Ok(expression, AST_error(a, equals, "Invalid assignment target."))

AST_assignment(f, r, a) ==
    IF f.pc = 0 THEN Calls([f EXCEPT !.pc = 1], Rule("or"), a)
    ELSE IF f.pc = 1
    THEN IF AST_matches(a, {TokenType["EQUAL"]})
         THEN Calls([rule |-> f.rule, pc |-> 2, expression |-> r,
                     equals |-> AST_previous(AST_advance(a))],
                    Rule("assignment"), AST_advance(a))
         ELSE Ok(r, a)
    ELSE IF f.expression.type = "identifier"
    THEN Ok([type |-> "assignment", name |-> f.expression.name, value |-> r], a)
    ELSE AST_invalidTarget(a, f.equals, f.expression)

\* let expression = operand(); while (match(...types)) { operator = previous();
\* right = operand(); expression = { type, operator, left: expression, right } }
AST_whileMatch(f, r, a, types, operand, type) ==
    LET expression == IF f.pc = 1 THEN r
                      ELSE [type |-> type, operator |-> f.operator, left |-> f.expression,
                            right |-> r]
    IN IF f.pc = 0 THEN Calls([f EXCEPT !.pc = 1], Rule(operand), a)
       ELSE IF AST_matches(a, types)
       THEN Calls([rule |-> f.rule, pc |-> 2, expression |-> expression,
                   operator |-> AST_previous(AST_advance(a))], Rule(operand), AST_advance(a))
       ELSE Ok(expression, a)

AST_or(f, r, a) == AST_whileMatch(f, r, a, {TokenType["OR"]}, "and", "logical")

AST_and(f, r, a) == AST_whileMatch(f, r, a, {TokenType["AND"]}, "equality", "logical")

AST_equality(f, r, a) ==
    AST_whileMatch(f, r, a, {TokenType["BANG_EQUAL"], TokenType["EQUAL_EQUAL"]},
                   "comparison", "binary")

AST_comparison(f, r, a) ==
    AST_whileMatch(f, r, a, {TokenType["GREATER"], TokenType["GREATER_EQUAL"],
                             TokenType["LESS"], TokenType["LESS_EQUAL"]}, "term", "binary")

AST_term(f, r, a) ==
    AST_whileMatch(f, r, a, {TokenType["PLUS"], TokenType["MINUS"]}, "factor", "binary")

AST_factor(f, r, a) ==
    AST_whileMatch(f, r, a, {TokenType["STAR"], TokenType["SLASH"], TokenType["MOD"]},
                   "preUnary", "binary")

\* a preUnary that returns its primary where no postfix operator follows
AST_preUnaryKeeps(f, r, a) ==
    IF f.pc = 0 THEN Calls([f EXCEPT !.pc = 1], Rule("primary"), a)
    ELSE IF AST_matches(a, {TokenType["INCREMENT"], TokenType["DECREMENT"]})
    THEN Ok([type |-> "unary", operator |-> AST_previous(AST_advance(a)), right |-> r],
            AST_advance(a))
    ELSE Ok(r, a)

AST_preUnary(f, r, a) ==
    IF f.pc = 0 THEN Calls([f EXCEPT !.pc = 1], Rule("primary"), a)
    ELSE IF f.pc = 1
    THEN IF AST_matches(a, {TokenType["INCREMENT"], TokenType["DECREMENT"]})
         THEN Ok([type |-> "unary", operator |-> AST_previous(AST_advance(a)), right |-> r],
                 AST_advance(a))
         ELSE Calls([f EXCEPT !.pc = 2], Rule("unary"), a)
    ELSE Ok(r, a)

AST_unary(f, r, a) ==
    IF f.pc = 0
    THEN IF AST_matches(a, {TokenType["BANG"], TokenType["MINUS"], TokenType["PLUS"],
                            TokenType["INCREMENT"], TokenType["DECREMENT"]})
         THEN Calls([rule |-> f.rule, pc |-> 1, operator |-> AST_previous(AST_advance(a))],
                    Rule("unary"), AST_advance(a))
         ELSE Calls([f EXCEPT !.pc = 2], Rule("call"), a)
    ELSE IF f.pc = 1 THEN Ok([type |-> "unary", operator |-> f.operator, right |-> r], a)
    ELSE Ok(r, a)

AST_call(f, r, a) ==
    IF f.pc = 0 THEN Calls([f EXCEPT !.pc = 1], Rule("primary"), a)
    ELSE IF AST_matches(a, {TokenType["LEFT_PAREN"]})
    THEN Calls(f, [rule |-> "finishCall", pc |-> 0, callee |-> r, args |-> <<>>],
               AST_advance(a))
    ELSE Ok(r, a)

\* finishCall(), from the consume of the ')' on
AST_finishCallEnd(callee, args, a) ==
    LET paren == AST_consume(a, TokenType["RIGHT_PAREN"], "Expected ')' after arguments.")
    IN IF paren.threw THEN paren
       ELSE Ok([type |-> "call", callee |-> callee, args |-> args], paren.ast)

AST_finishCall(f, r, a) ==
    IF f.pc = 0
    THEN IF ~AST_check(a, TokenType["RIGHT_PAREN"])
         THEN Calls([f EXCEPT !.pc = 1], Rule("expression"), a)
         ELSE AST_finishCallEnd(f.callee, <<>>, a)
    ELSE IF AST_matches(a, {TokenType["COMMA"]})
    THEN Calls([f EXCEPT !.args = Append(@, r)], Rule("expression"), AST_advance(a))
    ELSE AST_finishCallEnd(f.callee, Append(f.args, r), a)

\* the body of the rule that the activation f is in
AST_rule(f, r, a) ==
    CASE f.rule = "statement" -> AST_statement(f, r, a)
      [] f.rule = "primary" -> AST_primary(f, r, a)
      [] f.rule = "declaration" -> AST_declaration(f, r, a)
      [] f.rule = "ifStatement" -> AST_ifStatement(f, r, a)
      [] f.rule = "whileStatement" -> AST_whileStatement(f, r, a)
      [] f.rule = "forStatement" -> AST_forStatement(f, r, a)
      [] f.rule = "functionStatement" -> AST_functionStatement(f, r, a)
      [] f.rule = "returnStatement" -> AST_returnStatement(f, r, a)
      [] f.rule = "blockStatement" -> AST_blockStatement(f, r, a)
      [] f.rule = "expressionStatement" -> AST_expressionStatement(f, r, a)
      [] f.rule = "expression" -> AST_expression(f, r, a)
      [] f.rule = "assignment" -> AST_assignment(f, r, a)
      [] f.rule = "or" -> AST_or(f, r, a)
      [] f.rule = "and" -> AST_and(f, r, a)
      [] f.rule = "equality" -> AST_equality(f, r, a)
      [] f.rule = "comparison" -> AST_comparison(f, r, a)
      [] f.rule = "term" -> AST_term(f, r, a)
      [] f.rule = "factor" -> AST_factor(f, r, a)
      [] f.rule = "preUnary" -> AST_preUnary(f, r, a)
      [] f.rule = "unary" -> AST_unary(f, r, a)
      [] f.rule = "call" -> AST_call(f, r, a)
      [] f.rule = "finishCall" -> AST_finishCall(f, r, a)

\* one step of the activation on top of the parser's call stack
AST_step(s) ==
    LET frames == s.frames
    IN [AST_rule(frames[Len(frames)], s.node, s.ast)
            EXCEPT !.frames = SubSeq(frames, 1, Len(frames) - 1) \o @]

\* the parser's call stack, run until its first activation has returned or a rule threw
\* (the state now is taken as a value, so that each step is computed once)
RECURSIVE AST_resume(_)
AST_resume(s) ==
    [now \in {s} |-> IF now.threw \/ now.frames = <<>> THEN now
                     ELSE AST_resume(AST_step(now))][s]

\* this.statement(), called by parse()
AST_parseStatement(a) ==
    AST_resume([frames |-> <<Rule("statement")>>, node |-> Null, ast |-> a, threw |-> FALSE])

---------------------------------------------------------------------------
(* The host's operators on values.  Numbers are exact fractions: the       *)
(* rounding of floating point and the sign of zero are not modelled.       *)

\* the printable characters with codes 32..95; the letters a..z have the codes 97..122
AsciiLow ==
    <<" ", "!", "\"", "#", "$", "%", "&", "'", "(", ")", "*", "+", ",", "-", ".", "/">>
    \o Digits \o <<":", ";", "<", "=", ">", "?", "@">> \o UpperCase
    \o <<"[", "\\", "]", "^", "_">>

CharCode(c) ==
    IF c \in Range(AsciiLow) THEN 31 + (CHOOSE i \in DOMAIN AsciiLow : AsciiLow[i] = c)
    ELSE 96 + (CHOOSE i \in DOMAIN LowerCase : LowerCase[i] = c)

IsNaN(x) == x.cls = "NaN"
IsFinite(x) == x.cls = "finite"
Sign(x) == IF x.num > 0 THEN 1 ELSE IF x.num < 0 THEN -1 ELSE 0
SignedInfinity(sign) ==
    IF sign < 0 THEN [js |-> "number", cls |-> "-Infinity", num |-> -1, den |-> 1] ELSE Infinity

NumNeg(x) ==
    IF IsNaN(x) THEN NaN
    ELSE IF ~IsFinite(x) THEN SignedInfinity(-Sign(x))
    ELSE Number(-x.num, x.den)

NumAdd(x, y) ==
    IF IsNaN(x) \/ IsNaN(y) THEN NaN
    ELSE IF ~IsFinite(x) THEN (IF ~IsFinite(y) /\ y.cls # x.cls THEN NaN ELSE x)
    ELSE IF ~IsFinite(y) THEN y
    ELSE Ratio(x.num * y.den + y.num * x.den, x.den * y.den)

NumSub(x, y) == NumAdd(x, NumNeg(y))

NumMul(x, y) ==
    IF IsNaN(x) \/ IsNaN(y) THEN NaN
    ELSE IF ~IsFinite(x) \/ ~IsFinite(y)
    THEN (IF Sign(x) * Sign(y) = 0 THEN NaN ELSE SignedInfinity(Sign(x) * Sign(y)))
    ELSE Ratio(x.num * y.num, x.den * y.den)

NumDiv(x, y) ==
    IF IsNaN(x) \/ IsNaN(y) THEN NaN
    ELSE IF ~IsFinite(x) THEN (IF ~IsFinite(y) THEN NaN
                               ELSE SignedInfinity(IF Sign(y) < 0 THEN -Sign(x) ELSE Sign(x)))
    ELSE IF ~IsFinite(y) THEN Int32(0)
    ELSE IF y.num = 0 THEN (IF x.num = 0 THEN NaN ELSE SignedInfinity(Sign(x)))
    ELSE Ratio(Sign(y) * x.num * y.den, x.den * Abs(y.num))

NumMod(x, y) ==
    IF IsNaN(x) \/ IsNaN(y) \/ ~IsFinite(x) THEN NaN
    ELSE IF ~IsFinite(y) THEN x
    ELSE IF y.num = 0 THEN NaN
    \* x - y * q, q the quotient x / y rounded towards zero
    ELSE LET q == NumDiv(x, y)
         IN NumSub(x, NumMul(y, Int32(Sign(q) * (Abs(q.num) \div q.den))))

NumLess(x, y) ==
    IF IsNaN(x) \/ IsNaN(y) THEN FALSE
    ELSE IF x.cls = "Infinity" \/ y.cls = "-Infinity" THEN FALSE
    ELSE IF x.cls = "-Infinity" \/ y.cls = "Infinity" THEN TRUE
    ELSE x.num * y.den < y.num * x.den

RECURSIVE NatToString(_)
NatToString(n) ==
    IF n < 10 THEN <<Digits[n + 1]>> ELSE NatToString(n \div 10) \o <<Digits[(n % 10) + 1]>>

\* ToString; of a number it is modelled for the integers, NaN and the infinities
JsToString(v) ==
    CASE v.js = "undefined" -> <<"u", "n", "d", "e", "f", "i", "n", "e", "d">>
      [] v.js = "null" -> <<"n", "u", "l", "l">>
      [] v.js = "boolean" -> IF v.val THEN <<"t", "r", "u", "e">> ELSE <<"f", "a", "l", "s", "e">>
      [] v.js = "string" -> v.val
      [] v.js = "number" /\ IsNaN(v) -> <<"N", "a", "N">>
      [] v.js = "number" /\ v.cls = "Infinity" -> <<"I", "n", "f", "i", "n", "i", "t", "y">>
      [] v.js = "number" /\ v.cls = "-Infinity" -> <<"-", "I", "n", "f", "i", "n", "i", "t", "y">>
      [] v.js = "number" /\ IsFinite(v) /\ v.den = 1 ->
           IF v.num < 0 THEN <<"-">> \o NatToString(-v.num) ELSE NatToString(v.num)
      [] v.js = "object" ->
           <<"[", "o", "b", "j", "e", "c", "t", " ", "O", "b", "j", "e", "c", "t", "]">>

\* ToNumber; of a string it is modelled for the empty string, digit strings and
\* strings that start with a letter
JsToNumber(v) ==
    CASE v.js = "undefined" -> NaN
      [] v.js = "null" -> Int32(0)
      [] v.js = "boolean" -> Int32(IF v.val THEN 1 ELSE 0)
      [] v.js = "number" -> v
      [] v.js = "string" /\ v.val = <<>> -> Int32(0)
      [] v.js = "string" /\ v.val # <<>> /\ \A i \in DOMAIN v.val : Lexer_isDigit(v.val[i]) ->
           Int32(DigitsValue(v.val))
      [] v.js = "string" /\ v.val # <<>> /\ Lexer_isAlpha(v.val[1]) /\ Join(v.val) # "Infinity" -> NaN
      [] v.js = "object" -> NaN

\* ToBoolean
Truthy(v) ==
    CASE v.js = "undefined" -> FALSE
      [] v.js = "null" -> FALSE
      [] v.js = "boolean" -> v.val
      [] v.js = "number" -> ~IsNaN(v) /\ v.num # 0
      [] v.js = "string" -> v.val # <<>>
      [] OTHER -> TRUE

RECURSIVE StringLess(_, _)
StringLess(s, t) ==
    IF t = <<>> THEN FALSE
    ELSE IF s = <<>> THEN TRUE
    ELSE IF Head(s) = Head(t) THEN StringLess(Tail(s), Tail(t))
    ELSE CharCode(Head(s)) < CharCode(Head(t))

\* ToPrimitive of the values of the language; the host function has no modelled text
IsStringy(v) == v.js \in {"string", "object"}

\* left + right
JsAdd(l, r) ==
    IF IsStringy(l) \/ IsStringy(r) THEN Str(JsToString(l) \o JsToString(r))
    ELSE NumAdd(JsToNumber(l), JsToNumber(r))

\* left < right
JsLess(l, r) ==
    IF IsStringy(l) /\ IsStringy(r) THEN StringLess(JsToString(l), JsToString(r))
    ELSE NumLess(JsToNumber(l), JsToNumber(r))

\* left <= right is !(right < left), except that it is false when either is NaN
JsLessEqual(l, r) ==
    IF IsStringy(l) /\ IsStringy(r) THEN ~StringLess(JsToString(r), JsToString(l))
    ELSE ~IsNaN(JsToNumber(l)) /\ ~IsNaN(JsToNumber(r)) /\ ~NumLess(JsToNumber(r), JsToNumber(l))

\* left === right (two object values are the same object when they are the same node)
StrictEquals(l, r) ==
    IF l.js # r.js THEN FALSE
    ELSE IF l.js = "number" THEN ~IsNaN(l) /\ ~IsNaN(r) /\ l = r
    ELSE l = r

\* left && right, left || right
JsAnd(l, r) == IF Truthy(l) THEN r ELSE l
JsOr(l, r) == IF Truthy(l) THEN l ELSE r

---------------------------------------------------------------------------
(* Interpreter.  The host call stack holds one activation per method call  *)
(* in progress: run, statement, expression, binary, unary, each with the   *)
(* Map of its instance (ids, a reference into heap), its argument and the  *)
(* point it has reached.  A step of a method yields the activations that   *)
(* replace its own (none: it returned), the value it returned, the heap,   *)
(* the console lines it wrote and the error it threw.                      *)

MapHas(m, key) == key \in DOMAIN m
MapSet(m, key, value) == [k \in DOMAIN m \cup {key} |-> IF k = key THEN value ELSE m[k]]
EmptyMap == [k \in {} |-> Undefined]

\* the callee given this.identifiers itself
SameMap(h, src) == [heap |-> h, ref |-> src]

\* new Map(this.identifiers): a new Map object with the same entries
NewMapFrom(h, src) == [heap |-> Append(h, h[src]), ref |-> Len(h) + 1]

\* the constructor: this.identifiers.set("print", console.log)
NewInterpreter(h, ids) == [h EXCEPT ![ids] = MapSet(@, "print", [js |-> "function", name |-> "log"])]

RunFrame(ids, ast) ==
    [fn |-> "run", ids |-> ids, ast |-> ast, i |-> 1, result |-> Null, pc |-> "loop"]
StatementFrame(ids, statement) ==
    [fn |-> "statement", ids |-> ids, statement |-> statement, pc |-> "start", i |-> 1]
ExpressionFrame(ids, expression) ==
    [fn |-> "expression", ids |-> ids, expression |-> expression, pc |-> "start",
     calle |-> Undefined, args |-> <<>>]

Step(frames, value, h) ==
    [frames |-> frames, ret |-> value, heap |-> h, out |-> <<>>, error |-> NoError, call |-> "none"]
\* the activation goes on at f after callee returns
Invoke(f, callee, r, h) == Step(<<f, callee>>, r, h)
Return(value, h) == Step(<<>>, value, h)
\* an error that is dropped: the method returns what it had
ThrowDropped(error, r, h) == Step(<<>>, r, h)

Throw(error, r, h) == [Step(<<>>, r, h) EXCEPT !.error = error]

\* run()'s loop left at a return statement
Interpreter_runUntilReturn(f) ==
    f.i <= Len(f.ast) /\ (f.i = 1 \/ f.ast[f.i - 1].type # "return")

\* whether run()'s for-of loop has a statement left
Interpreter_runHasNext(f) == f.i <= Len(f.ast)

\* run()
Interpreter_run(f, r, h) ==
    IF f.pc = "loop"
    THEN IF Interpreter_runHasNext(f)
         THEN Invoke([f EXCEPT !.pc = "assign"], StatementFrame(f.ids, f.ast[f.i]), r, h)
         ELSE [Return(f.result, h) EXCEPT !.out = <<[log |-> <<Str(<<"Execution time">>)>>]>>]
    ELSE Step(<<[f EXCEPT !.result = r, !.i = @ + 1, !.pc = "loop"]>>, r, h)

\* statement(statement)
Interpreter_statement(f, r, h) ==
    LET statement == f.statement
        type == IF statement = Null THEN "null" ELSE statement.type
    IN CASE f.pc = "start" /\ statement = Null -> Return(Undefined, h)
         [] f.pc = "start" /\ type = "expression" ->
              Invoke([f EXCEPT !.pc = "return"], ExpressionFrame(f.ids, statement.expression), r, h)
         [] f.pc = "start" /\ type = "variable" ->
              Invoke([f EXCEPT !.pc = "variable.set"], ExpressionFrame(f.ids, statement.initializer), r, h)
         [] f.pc = "variable.set" ->
              Return(Undefined, [h EXCEPT ![f.ids] = MapSet(@, statement.name.lexeme, r)])
         [] (f.pc = "start" /\ type = "block") \/ f.pc = "block" ->
              IF f.i <= Len(statement.statements)
              THEN Invoke([f EXCEPT !.pc = "block", !.i = @ + 1],
                          StatementFrame(f.ids, statement.statements[f.i]), r, h)
              ELSE Return(Undefined, h)
         [] f.pc = "start" /\ type = "if" ->
              Invoke([f EXCEPT !.pc = "if.test"], ExpressionFrame(f.ids, statement.condition), r, h)
         [] f.pc = "if.test" ->
              IF Truthy(r)
              THEN Invoke([f EXCEPT !.pc = "break"], StatementFrame(f.ids, statement.thenBranch), r, h)
              ELSE IF statement.elseBranch # Null
              THEN Invoke([f EXCEPT !.pc = "break"], StatementFrame(f.ids, statement.elseBranch), r, h)
              ELSE Return(Undefined, h)
         [] (f.pc = "start" /\ type = "while") \/ f.pc = "while.loop" ->
              Invoke([f EXCEPT !.pc = "while.test"], ExpressionFrame(f.ids, statement.condition), r, h)
         [] f.pc = "while.test" ->
              IF Truthy(r)
              THEN Invoke([f EXCEPT !.pc = "while.loop"], StatementFrame(f.ids, statement.body), r, h)
              ELSE Return(Undefined, h)
         [] f.pc = "start" /\ type = "for" ->
              Invoke([f EXCEPT !.pc = "for.loop"], StatementFrame(f.ids, statement.initializer), r, h)
         [] f.pc = "for.loop" ->
              Invoke([f EXCEPT !.pc = "for.test"], ExpressionFrame(f.ids, statement.condition), r, h)
         [] f.pc = "for.test" ->
              IF Truthy(r)
              THEN Invoke([f EXCEPT !.pc = "for.increment"], StatementFrame(f.ids, statement.body), r, h)
              ELSE Return(Undefined, h)
         [] f.pc = "for.increment" ->
              \* this.statement(statement.increment)
              Invoke([f EXCEPT !.pc = "for.loop"], StatementFrame(f.ids, statement.increment), r, h)
         [] f.pc = "start" /\ type = "function" ->
              Return(Undefined, [h EXCEPT ![f.ids] = MapSet(@, statement.name.lexeme,
                                                         [js |-> "object", node |-> statement])])
         [] f.pc = "start" /\ type = "return" ->
              Invoke([f EXCEPT !.pc = "return"], ExpressionFrame(f.ids, statement.value), r, h)
         [] f.pc = "return" -> Return(r, h)
         [] f.pc = "break" -> Return(Undefined, h)
         \* no case of the switch matches the type: the method falls off its end
         [] OTHER -> Return(Undefined, h)

\* stack.set(calle.params[i].lexeme, args[i]) for every i
RECURSIVE Interpreter_bindParams(_, _, _, _)
Interpreter_bindParams(m, params, args, i) ==
    IF i > Len(params) THEN m
    ELSE Interpreter_bindParams(
             MapSet(m, params[i].lexeme, IF i <= Len(args) THEN args[i] ELSE Undefined),
             params, args, i + 1)

\* a call case that takes a value that is no function for one that does nothing
Interpreter_callLenient(f, r, h) ==
    LET made == NewMapFrom(h, f.ids)
        bound == [made.heap EXCEPT ![made.ref] =
                      Interpreter_bindParams(@, f.calle.node.params, f.args, 1)]
    IN IF f.calle.js = "function" THEN [Return(Undefined, h) EXCEPT !.out = <<[log |-> f.args]>>]
       ELSE IF f.calle.js # "object" THEN Return(Undefined, h)
       ELSE IF Len(h) >= MaxDepth
       THEN Throw([name |-> "RangeError", message |-> "Maximum call stack size exceeded"], r, bound)
       ELSE [Invoke([f EXCEPT !.pc = "call.run"],
                    RunFrame(made.ref, f.calle.node.body.statements), r,
                    NewInterpreter(bound, made.ref))
             EXCEPT !.call = "enter"]

\* the call case once the callee and the arguments are evaluated
Interpreter_call(f, r, h) ==
    LET calle == f.calle
        args == f.args
        made == NewMapFrom(h, f.ids)
        bound == [made.heap EXCEPT ![made.ref] =
                      Interpreter_bindParams(@, calle.node.params, args, 1)]
    IN IF ~Truthy(calle) THEN Throw(Error("Function not found"), r, h)
       ELSE IF calle.js = "function"
       THEN [Return(Undefined, h) EXCEPT !.out = <<[log |-> args]>>]
       ELSE IF calle.js # "object" \/ ~MapHas(calle.node, "params")
       THEN Throw([name |-> "TypeError",
                   message |-> "Cannot read properties of undefined (reading 'length')"],
                  r, made.heap)
       ELSE IF calle.node.type # "function" THEN Throw(Error("Can only call functions"), r, bound)
       \* the host's call stack holds no deeper nesting of evaluators
       ELSE IF Len(h) >= MaxDepth
       THEN Throw([name |-> "RangeError", message |-> "Maximum call stack size exceeded"], r, bound)
       ELSE [Invoke([f EXCEPT !.pc = "call.run"],
                    RunFrame(made.ref, calle.node.body.statements), r,
                    NewInterpreter(bound, made.ref))
             EXCEPT !.call = "enter"]

\* expression(expression)
Interpreter_expression(f, r, h) ==
    LET expression == f.expression
        type == IF expression = Null THEN "null" ELSE expression.type
    IN CASE f.pc = "start" /\ expression = Null -> Return(Null, h)
         [] f.pc = "start" /\ type = "binary" ->
              Invoke([f EXCEPT !.pc = "return"],
                     [fn |-> "binary", ids |-> f.ids, expression |-> expression, pc |-> "start",
                      left |-> Undefined], r, h)
         [] f.pc = "start" /\ type = "grouping" ->
              Invoke([f EXCEPT !.pc = "return"], ExpressionFrame(f.ids, expression.expression), r, h)
         [] f.pc = "start" /\ type = "literal" -> Return(expression.value, h)
         [] f.pc = "start" /\ type = "unary" ->
              Invoke([f EXCEPT !.pc = "return"],
                     [fn |-> "unary", ids |-> f.ids, expression |-> expression, pc |-> "start"],
                     r, h)
         [] f.pc = "start" /\ type = "identifier" ->
              IF ~MapHas(h[f.ids], expression.name.lexeme)
              THEN Throw(Error("Variable not found: " \o expression.name.lexeme), r, h)
              ELSE Return(h[f.ids][expression.name.lexeme], h)
         [] f.pc = "start" /\ type = "assignment" ->
              Invoke([f EXCEPT !.pc = "assignment.set"], ExpressionFrame(f.ids, expression.value), r, h)
         [] f.pc = "assignment.set" ->
              Return(r, [h EXCEPT ![f.ids] = MapSet(@, expression.name.lexeme, r)])
         [] f.pc = "start" /\ type = "call" ->
              Invoke([f EXCEPT !.pc = "call.callee"], ExpressionFrame(f.ids, expression.callee), r, h)
         [] f.pc \in {"call.callee", "call.args"} ->
              LET g == IF f.pc = "call.callee" THEN [f EXCEPT !.calle = r]
                       ELSE [f EXCEPT !.args = Append(@, r)]
                  n == Len(g.args) + 1
              IN IF n <= Len(expression.args)
                 THEN Invoke([g EXCEPT !.pc = "call.args"],
                             ExpressionFrame(f.ids, expression.args[n]), r, h)
                 ELSE Interpreter_call(g, r, h)
         [] f.pc = "call.run" -> [Return(r, h) EXCEPT !.call = "leave"]
         [] f.pc = "return" -> Return(r, h)
         \* no case of the switch matches the type: the method falls off its end
         [] OTHER -> Return(Undefined, h)

\* the switch of binary() on the operator's token type
Interpreter_binaryOperator(type, left, right) ==
    CASE type = TokenType["MINUS"] -> NumSub(JsToNumber(left), JsToNumber(right))
      [] type = TokenType["PLUS"] -> JsAdd(left, right)
      [] type = TokenType["SLASH"] -> NumDiv(JsToNumber(left), JsToNumber(right))
      [] type = TokenType["STAR"] -> NumMul(JsToNumber(left), JsToNumber(right))
      [] type = TokenType["GREATER"] -> Bool(JsLess(right, left))
      [] type = TokenType["GREATER_EQUAL"] -> Bool(JsLessEqual(right, left))
      [] type = TokenType["LESS"] -> Bool(JsLess(left, right))
      [] type = TokenType["LESS_EQUAL"] -> Bool(JsLessEqual(left, right))
      [] type = TokenType["BANG_EQUAL"] -> Bool(~StrictEquals(left, right))
      [] type = TokenType["EQUAL_EQUAL"] -> Bool(StrictEquals(left, right))
      [] type = TokenType["AND"] -> JsAnd(left, right)
      [] type = TokenType["OR"] -> JsOr(left, right)
      [] type = TokenType["EQUAL"] -> Bool(StrictEquals(left, right))
      [] type = TokenType["MOD"] -> NumMod(JsToNumber(left), JsToNumber(right))

\* binary(expression)
Interpreter_binary(f, r, h) ==
    CASE f.pc = "start" ->
           Invoke([f EXCEPT !.pc = "left"], ExpressionFrame(f.ids, f.expression.left), r, h)
      [] f.pc = "left" ->
           Invoke([f EXCEPT !.pc = "right", !.left = r],
                  ExpressionFrame(f.ids, f.expression.right), r, h)
      [] f.pc = "right" ->
           IF f.expression.operator.type \in
                 {TokenType[n] : n \in {"MINUS", "PLUS", "SLASH", "STAR", "GREATER",
                                        "GREATER_EQUAL", "LESS", "LESS_EQUAL", "BANG_EQUAL",
                                        "EQUAL_EQUAL", "AND", "OR", "EQUAL", "MOD"}}
           THEN Return(Interpreter_binaryOperator(f.expression.operator.type, f.left, r), h)
           ELSE Throw(Error("Unknown operator: " \o TokenTypeNames[f.expression.operator.type + 1]),
                      r, h)

\* unary(expression)
Interpreter_unary(f, r, h) ==
    CASE f.pc = "start" ->
           Invoke([f EXCEPT !.pc = "right"], ExpressionFrame(f.ids, f.expression.right), r, h)
      [] f.pc = "right" ->
           IF f.expression.operator.type = TokenType["BANG"] THEN Return(Bool(~Truthy(r)), h)
           ELSE IF f.expression.operator.type = TokenType["MINUS"]
           THEN Return(NumNeg(JsToNumber(r)), h)
           ELSE Return(Undefined, h)

---------------------------------------------------------------------------
(* The entry point: new Interpreter(new AST(new Lexer(code).lex()).parse()).run() *)

Top == stack[Len(stack)]

\* the Maps no activation refers to any more are gone
Collect(h, frames) ==
    IF frames = <<>> THEN h
    ELSE SubSeq(h, 1, CHOOSE n \in 1..Len(h) :
                          /\ \E i \in DOMAIN frames : frames[i].ids = n
                          /\ \A i \in DOMAIN frames : frames[i].ids <= n)

\* lex(): one turn of while (!isAtEnd()) { start = current; scanToken(); }
LexLoop ==
    /\ pc = "lex"
    /\ ~Lexer_isAtEnd(lexer)
    /\ LET scanned == Lexer_scanToken([lexer EXCEPT !.start = lexer.current])
       IN /\ lexer' = scanned.lexer
          /\ thrown' = scanned.error
          /\ pc' = IF scanned.error = NoError THEN "lex" ELSE "threw"
    /\ UNCHANGED <<parser, console, heap, stack, ret, calls>>

\* lex(): the end-of-input token and the return; new AST(tokens)
LexReturn ==
    /\ pc = "lex"
    /\ Lexer_isAtEnd(lexer)
    /\ LET tokens == Append(lexer.tokens,
                            Token(TokenType["EOF"], "", Null, lexer.line, lexer.column))
       IN /\ lexer' = [lexer EXCEPT !.tokens = tokens]
          /\ parser' = NewAST(tokens)
    /\ pc' = "parse"
    /\ UNCHANGED <<console, heap, stack, ret, calls, thrown>>

\* parse(): one turn of while (!isAtEnd()) statements.push(statement())
ParseLoop ==
    /\ pc = "parse"
    /\ ~AST_isAtEnd(parser)
    /\ \E parsed \in {AST_parseStatement([tokens |-> parser.tokens,
                                          current |-> parser.current,
                                          console |-> console])} :
          /\ console' = parsed.ast.console
          /\ IF parsed.threw
             THEN /\ pc' = "threw"
                  /\ thrown' = Error("")
                  /\ parser' = [parser EXCEPT !.current = parsed.ast.current]
             ELSE /\ pc' = "parse"
                  /\ thrown' = thrown
                  /\ parser' = [parser EXCEPT !.current = parsed.ast.current,
                                               !.statements = Append(@, parsed.node)]
    /\ UNCHANGED <<lexer, heap, stack, ret, calls>>

\* parse(): the return; new Interpreter(statements) and the call of run()
ParseReturn ==
    /\ pc = "parse"
    /\ AST_isAtEnd(parser)
    /\ pc' = "run"
    /\ heap' = NewInterpreter(<<EmptyMap>>, 1)
    /\ stack' = <<RunFrame(1, parser.statements)>>
    /\ UNCHANGED <<lexer, parser, console, ret, calls, thrown>>

\* a step of the method whose activation is on top of the stack
Apply(step) ==
    LET frames == SubSeq(stack, 1, Len(stack) - 1) \o step.frames
    IN /\ console' = console \o step.out
       /\ IF step.error # NoError
          THEN /\ pc' = "threw"
               /\ thrown' = step.error
               /\ stack' = <<>>
               /\ calls' = <<>>
               /\ heap' = step.heap
               /\ ret' = ret
          ELSE /\ pc' = IF frames = <<>> THEN "exit" ELSE pc
               /\ thrown' = thrown
               /\ stack' = frames
               /\ heap' = Collect(step.heap, frames)
               /\ ret' = step.ret
               /\ calls' = IF step.call = "enter"
                           THEN Append(calls, [ids |-> Top.ids, identifiers |-> heap[Top.ids]])
                           ELSE IF step.call = "leave" THEN SubSeq(calls, 1, Len(calls) - 1)
                           ELSE calls
       /\ UNCHANGED <<lexer, parser>>

Running(fn) == pc = "run" /\ stack # <<>> /\ Top.fn = fn

Run == Running("run") /\ Apply(Interpreter_run(Top, ret, heap))
Statement == Running("statement") /\ Apply(Interpreter_statement(Top, ret, heap))
Expression == Running("expression") /\ Apply(Interpreter_expression(Top, ret, heap))
Binary == Running("binary") /\ Apply(Interpreter_binary(Top, ret, heap))
Unary == Running("unary") /\ Apply(Interpreter_unary(Top, ret, heap))

---------------------------------------------------------------------------
(* Specifications *)

Sources(alphabet, n) == UNION {[1..k -> alphabet] : k \in 0..n}

\* the lexer on every source of at most MaxSrcLen characters of an alphabet
InitLex ==
    /\ pc = "lex"
    /\ \E source \in Sources({"e", "o", "f", "r", "O", "_", "1", ".", "=", ">", "!", "/", "\"",
                               " ", "\n", ";", "#"}, MaxSrcLen) :
          lexer = NewLexer(source)
    /\ parser = NewAST(<<>>)
    /\ console = <<>>
    /\ heap = <<>>
    /\ stack = <<>>
    /\ ret = Undefined
    /\ calls = <<>>
    /\ thrown = NoError

NextLex == LexLoop \/ LexReturn

SpecLex == InitLex /\ [][NextLex]_vars


\* the parser on every token sequence of at most MaxTokens tokens of an alphabet,
\* followed by the end-of-input token
Tk(type, lexeme) == Token(TokenType[type], lexeme, Undefined, 1, 1)
TkNumber(n) == Token(TokenType["NUMBER"], Join(NatToString(n)), Int32(n), 1, 1)
TkEOF == Token(TokenType["EOF"], "", Null, 1, 1)

InitParse(alphabet) ==
    /\ pc = "parse"
    /\ \E tokens \in Sources(alphabet, MaxTokens) : parser = NewAST(tokens \o <<TkEOF>>)
    /\ lexer = NewLexer(<<>>)
    /\ console = <<>>
    /\ heap = <<>>
    /\ stack = <<>>
    /\ ret = Undefined
    /\ calls = <<>>
    /\ thrown = NoError

NextParse == ParseLoop \/ ParseReturn

\* the tokens of sums and products
SpecParseArith ==
    /\ InitParse({TkNumber(1), TkNumber(2), Tk("PLUS", "+"), Tk("STAR", "*"),
                  Tk("SEMICOLON", ";")})
    /\ [][NextParse]_vars

\* the tokens of assignments
SpecParseAssign ==
    /\ InitParse({TkNumber(1), Tk("IDENTIFIER", "x"), Tk("INCREMENT", "increment"),
                  Tk("EQUAL", "="), Tk("SEMICOLON", ";")})
    /\ [][NextParse]_vars

\* the parser on given token sequences
InitParseOf(sequences) ==
    /\ pc = "parse"
    /\ \E tokens \in sequences : parser = NewAST(tokens \o <<TkEOF>>)
    /\ lexer = NewLexer(<<>>)
    /\ console = <<>>
    /\ heap = <<>>
    /\ stack = <<>>
    /\ ret = Undefined
    /\ calls = <<>>
    /\ thrown = NoError

\* blocks: what opens the block ( {  /  fun f ( p ) {  /  if ( x x ) { ), the token
\* groups that follow each other inside it, each the start of one direct child (an
\* expression statement, or a statement of another kind), and the closing brace
BlockInputs ==
    LET RECURSIVE Tokens(_, _)
        Tokens(opener, children) ==
            IF children = <<>> THEN opener \o <<Tk("RIGHT_BRACE", "}")>>
            ELSE Tokens(opener \o Head(children).tokens, Tail(children))
        openers ==
            {<<Tk("LEFT_BRACE", "{")>>,
             <<Tk("FUN", "fun"), Tk("IDENTIFIER", "f"), Tk("LEFT_PAREN", "("),
               Tk("IDENTIFIER", "p"), Tk("RIGHT_PAREN", ")"), Tk("LEFT_BRACE", "{")>>,
             <<Tk("IF", "if"), Tk("LEFT_PAREN", "("), Tk("IDENTIFIER", "x"),
               Tk("IDENTIFIER", "x"), Tk("RIGHT_PAREN", ")"), Tk("LEFT_BRACE", "{")>>}
        child ==
            {[kind |-> "expression",
              tokens |-> <<Tk("IDENTIFIER", "x"), Tk("IDENTIFIER", "y"), Tk("SEMICOLON", ";")>>],
             [kind |-> "var",
              tokens |-> <<Tk("VAR", "var"), Tk("IDENTIFIER", "x"), Tk("SEMICOLON", ";")>>],
             [kind |-> "if",
              tokens |-> <<Tk("IF", "if"), Tk("LEFT_PAREN", "("), Tk("IDENTIFIER", "x"),
                           Tk("IDENTIFIER", "x"), Tk("RIGHT_PAREN", ")"), Tk("IDENTIFIER", "x"),
                           Tk("IDENTIFIER", "y"), Tk("SEMICOLON", ";")>>],
             [kind |-> "while",
              tokens |-> <<Tk("WHILE", "while"), Tk("LEFT_PAREN", "("), Tk("IDENTIFIER", "x"),
                           Tk("IDENTIFIER", "x"), Tk("RIGHT_PAREN", ")"), Tk("IDENTIFIER", "x"),
                           Tk("IDENTIFIER", "y"), Tk("SEMICOLON", ";")>>],
             [kind |-> "for",
              tokens |-> <<Tk("FOR", "for"), Tk("LEFT_PAREN", "("), Tk("SEMICOLON", ";"),
                           Tk("SEMICOLON", ";"), Tk("RIGHT_PAREN", ")"), Tk("IDENTIFIER", "x"),
                           Tk("IDENTIFIER", "y"), Tk("SEMICOLON", ";")>>],
             [kind |-> "return",
              tokens |-> <<Tk("RETURN", "return"), Tk("SEMICOLON", ";")>>],
             [kind |-> "fun",
              tokens |-> <<Tk("FUN", "fun"), Tk("IDENTIFIER", "g"), Tk("LEFT_PAREN", "("),
                           Tk("RIGHT_PAREN", ")"), Tk("LEFT_BRACE", "{"),
                           Tk("RIGHT_BRACE", "}")>>],
             [kind |-> "block",
              tokens |-> <<Tk("LEFT_BRACE", "{"), Tk("RIGHT_BRACE", "}")>>]}
    IN {[children |-> children, tokens |-> Tokens(opener, children)] :
           opener \in openers, children \in UNION {[1..n -> child] : n \in 0..MaxStmts}}

SpecParseBlock ==
    InitParseOf({input.tokens : input \in BlockInputs}) /\ [][NextParse]_vars

\* the tokens around an operand, the word eof among them, with weak fairness: parse()
\* is one call that runs until it returns or throws
SpecParseOperand ==
    /\ InitParseOf(Sources({TkNumber(1), TkNumber(2), Tk("PLUS", "+"), Tk("STAR", "*"),
                            Tk("INCREMENT", "increment"), Tk("SEMICOLON", ";"),
                            Tk("RIGHT_PAREN", ")"), Tk("EOF", "eof")}, MaxOperandTokens))
    /\ [][NextParse]_vars
    /\ WF_vars(NextParse)

---------------------------------------------------------------------------
(* The evaluator on statement sequences built as the node types declare them *)

Name(lexeme) == Tk("IDENTIFIER", lexeme)

BinaryExpression(left, operator, right) ==
    [type |-> "binary", operator |-> operator, left |-> left, right |-> right]
IdentifierExpression(lexeme) == [type |-> "identifier", name |-> Name(lexeme)]
AssignmentExpression(lexeme, value) ==
    [type |-> "assignment", name |-> Name(lexeme), value |-> value]
CallExpression(callee, args) == [type |-> "call", callee |-> callee, args |-> args]
ExpressionStatement(expression) == [type |-> "expression", expression |-> expression]
VariableStatement(lexeme, initializer) ==
    [type |-> "variable", name |-> Name(lexeme), initializer |-> initializer]
BlockStatement(statements) == [type |-> "block", statements |-> statements]
ForStatement(initializer, condition, increment, body) ==
    [type |-> "for", initializer |-> initializer, condition |-> condition,
     increment |-> increment, body |-> body]
ReturnStatement(value) ==
    [type |-> "return", keyword |-> Tk("RETURN", "return"), value |-> value]

Num(n) == [type |-> "literal", value |-> Int32(n)]
Plus(left, right) == BinaryExpression(left, Tk("PLUS", "+"), right)
Less(left, right) == BinaryExpression(left, Tk("LESS", "<"), right)

\* the statements a sequence is made of: they return, compute, assign, declare, read,
\* print and call
Bodies ==
    UNION {[1..n ->
              {ReturnStatement(Num(1)),
               ExpressionStatement(Plus(Num(2), Num(2))),
               ExpressionStatement(AssignmentExpression("x", Num(5))),
               VariableStatement("y", IdentifierExpression("p")),
               ExpressionStatement([type |-> "unary", operator |-> Tk("MINUS", "-"),
                                    right |-> IdentifierExpression("x")]),
               ExpressionStatement(CallExpression(IdentifierExpression("print"),
                                                  <<IdentifierExpression("x")>>)),
               ExpressionStatement(CallExpression(IdentifierExpression("f"), <<Num(3)>>))}] :
           n \in 1..MaxStmts}

\* var x = 1; fun f(p) { body } f(3);
CallOf(body) ==
    <<VariableStatement("x", Num(1)),
      [type |-> "function", name |-> Name("f"), params |-> <<Name("p")>>,
       body |-> BlockStatement(body)],
      ExpressionStatement(CallExpression(IdentifierExpression("f"), <<Num(3)>>))>>

\* a and (b = v) / a or (b = v) with both operands assignments
LogicalOf(operator, v, w) ==
    <<ExpressionStatement([type |-> "logical", operator |-> operator,
                           left |-> AssignmentExpression("a", Num(v)),
                           right |-> AssignmentExpression("b", Num(w))])>>

\* for (var i = 0; i < 1; i = i + 1) x = i;
ForCounting ==
    <<ForStatement(VariableStatement("i", Num(0)), Less(IdentifierExpression("i"), Num(1)),
                   AssignmentExpression("i", Plus(IdentifierExpression("i"), Num(1))),
                   ExpressionStatement(AssignmentExpression("x", IdentifierExpression("i"))))>>

\* first f(args);  where the statement first binds f
CallOn(first, args) ==
    <<first, ExpressionStatement(CallExpression(IdentifierExpression("f"), args))>>

\* new Interpreter(ast).run() on every program: the statement sequences, the calls
\* of a function with such a body, the logical expressions, the calls f(), f(a = 1),
\* f(a = 1, b = 2) after var f = <a value that is no function>; or after
\* fun f(params) { <the last parameter>; },
\*   for (var i = 0; i < 1; i = i + 1) x = i;
\*   for (;;) x = 1;
\*   var i = 0; while (i < 2) i = i + 1; if (i < 1) { x = 1; } else x = 2;
InitEval ==
    /\ pc = "run"
    /\ \E ast \in
          Bodies \cup {CallOf(body) : body \in Bodies}
          \cup {LogicalOf(operator, v, w) : operator \in {Tk("AND", "and"), Tk("OR", "or")}, v \in 0..1, w \in 0..1}
          \cup {CallOn(first, args) :
                   first \in {VariableStatement("f", [type |-> "literal", value |-> v]) :
                                v \in {Null, Bool(TRUE), Bool(FALSE), Int32(0), Int32(1),
                                       Str(<<>>), Str(<<"s">>)}}
                             \cup {[type |-> "function", name |-> Name("f"),
                                    params |-> [i \in DOMAIN params |-> Name(params[i])],
                                    body |-> BlockStatement(<<ExpressionStatement(
                                        IdentifierExpression(params[Len(params)]))>>)] :
                                   params \in {<<"p">>, <<"f">>, <<"print">>, <<"p", "q">>}},
                   args \in {<<>>, <<AssignmentExpression("a", Num(1))>>,
                             <<AssignmentExpression("a", Num(1)),
                               AssignmentExpression("b", Num(2))>>}}
          \cup {ForCounting,
                <<ForStatement(Null, Null, Null,
                               ExpressionStatement(AssignmentExpression("x", Num(1))))>>,
                <<VariableStatement("i", Num(0)),
                  [type |-> "while", condition |-> Less(IdentifierExpression("i"), Num(2)),
                   body |-> ExpressionStatement(AssignmentExpression(
                                "i", Plus(IdentifierExpression("i"), Num(1))))],
                  [type |-> "if", condition |-> Less(IdentifierExpression("i"), Num(1)),
                   thenBranch |-> BlockStatement(
                       <<ExpressionStatement(AssignmentExpression("x", Num(1)))>>),
                   elseBranch |-> ExpressionStatement(AssignmentExpression("x", Num(2)))]>>} :
          /\ parser = [NewAST(<<TkEOF>>) EXCEPT !.statements = ast]
          /\ stack = <<RunFrame(1, ast)>>
    /\ heap = NewInterpreter(<<EmptyMap>>, 1)
    /\ lexer = NewLexer(<<>>)
    /\ console = <<>>
    /\ ret = Undefined
    /\ calls = <<>>
    /\ thrown = NoError

NextEval == Run \/ Statement \/ Expression \/ Binary \/ Unary

SpecEval == InitEval /\ [][NextEval]_vars

---------------------------------------------------------------------------
(* The program: lex, parse and run a source text *)

\* var x = a + b * c; x;
SumOfProductText(a, b, c) ==
    <<"v", "a", "r", " ", "x", " ", "=", " ">> \o <<a>> \o <<" ", "+", " ">> \o <<b>> \o <<" ", "*", " ">> \o <<c>> \o <<";", " ", "x", ";">>

SourceDigits == {"1", "2", "3"}

\* the source texts: var x = a + b * c; x; and var x = 0 a + 0 b * 0 c; 0 x; for the
\* digits a, b, c, and 0 -1; 0 print(0 "a"); 0 1; #
Init ==
    /\ pc = "lex"
    /\ \E source \in
          {SumOfProductText(a, b, c) : a \in SourceDigits, b \in SourceDigits, c \in SourceDigits}
          \cup {<<"v", "a", "r", " ", "x", " ", "=", " ", "0", " ">> \o <<a>>
                  \o <<" ", "+", " ", "0", " ">> \o <<b>> \o <<" ", "*", " ", "0", " ">> \o <<c>>
                  \o <<";", " ", "0", " ", "x", ";">> :
                   a \in SourceDigits, b \in SourceDigits, c \in SourceDigits}
          \cup {<<"0", " ", "-", "1", ";">>,
                <<"0", " ", "p", "r", "i", "n", "t", "(", "0", " ", "\"", "a", "\"", ")", ";">>,
                <<"0", " ", "1", ";", " ", "#">>} :
          lexer = NewLexer(source)
    /\ parser = NewAST(<<>>)
    /\ console = <<>>
    /\ heap = <<>>
    /\ stack = <<>>
    /\ ret = Undefined
    /\ calls = <<>>
    /\ thrown = NoError

Next ==
    \/ LexLoop
    \/ LexReturn
    \/ ParseLoop
    \/ ParseReturn
    \/ Run
    \/ Statement
    \/ Expression
    \/ Binary
    \/ Unary

Spec == Init /\ [][Next]_vars

---------------------------------------------------------------------------
(* Claims about the lexer, checked under SpecLex *)

\* C8: whenever lex() has returned, the token sequence it returned holds exactly one
\* end-of-input token, and that token is its last element
LexEndsWithOneEOF ==
    pc = "parse" =>
        /\ lexer.tokens[Len(lexer.tokens)].type = TokenType["EOF"]
        /\ \A i \in 1..(Len(lexer.tokens) - 1) : lexer.tokens[i].type # TokenType["EOF"]

\* the enum members that name a word of the language
Keywords ==
    {"AND", "ELSE", "FALSE", "FOR", "IF", "NULL", "OR", "RETURN", "THIS", "TRUE",
     "VAR", "WHILE", "FUN"}

\* the text of the token a turn of the lexer's loop has just added
ScannedText == substring(lexer'.source, lexer.current, lexer'.current)

\* C9: a turn of the lexer's loop that starts at a letter or underscore and adds a token
\* gives it a keyword kind exactly when its uppercased text is one of the 13 keyword
\* names, and the kind IDENTIFIER otherwise
KeywordKindsOnly ==
    [][(/\ pc = "lex"
        /\ ~Lexer_isAtEnd(lexer)
        /\ Lexer_isAlpha(Lexer_peek(lexer))
        /\ Len(lexer'.tokens) = Len(lexer.tokens) + 1)
       => lexer'.tokens[Len(lexer'.tokens)].type =
            IF toUpperCase(ScannedText) \in Keywords
            THEN TokenType[toUpperCase(ScannedText)]
            ELSE TokenType["IDENTIFIER"]]_vars

---------------------------------------------------------------------------
(* Claims about the parser *)

\* the tokens of  a + b * c ;  for numbers a, b and c, and the end of input
IsSumOfProduct(tokens) ==
    /\ Len(tokens) = 7
    /\ [i \in 1..7 |-> tokens[i].type] =
         <<TokenType["NUMBER"], TokenType["PLUS"], TokenType["NUMBER"], TokenType["STAR"],
           TokenType["NUMBER"], TokenType["SEMICOLON"], TokenType["EOF"]>>

Literal(token) == [type |-> "literal", value |-> token.literal]

\* C1: parse() of the tokens of  a + b * c ;  returns, and returns one expression
\* statement whose expression is binary(+) of a and of binary(*) of b and c
PrecedenceOfSumOfProduct ==
    (IsSumOfProduct(parser.tokens) /\ pc \in {"run", "threw"}) =>
        /\ pc = "run"
        /\ parser.statements =
             <<[type |-> "expression",
                expression |->
                    [type |-> "binary", operator |-> parser.tokens[2],
                     left |-> Literal(parser.tokens[1]),
                     right |-> [type |-> "binary", operator |-> parser.tokens[4],
                                left |-> Literal(parser.tokens[3]),
                                right |-> Literal(parser.tokens[5])]]]>>

\* C10: once the parser has reported an error it has thrown: it neither goes on
\* parsing nor returns statements
ParserHaltsOnFirstError == console # <<>> => pc = "threw"

---------------------------------------------------------------------------
(* Claims about the program as a whole, checked under Spec *)

\* C2: the program on the source  var x = 1 + 2 * 3; x;  ends without an error and run()
\* returns 7
EndToEndSeven ==
    (lexer.source = SumOfProductText("1", "2", "3") /\ pc \in {"exit", "threw"}) =>
        (pc = "exit" /\ ret = Int32(7))

---------------------------------------------------------------------------
(* Claims about the evaluator, checked under SpecEval *)

Below == SubSeq(stack, 1, Len(stack) - 1)

\* the statements that follow a return in the checked sequences, with their values
AfterReturn ==
    {[statement |-> ExpressionStatement(Plus(Num(2), Num(2))), value |-> Int32(4)],
     [statement |-> ExpressionStatement(AssignmentExpression("x", Num(5))),
      value |-> Int32(5)]}

\* return 1; followed by a statement, as a program and as the body of a called function
ReturnThen(statement) ==
    {<<ReturnStatement(Num(1)), statement>>,
     CallOf(<<ReturnStatement(Num(1)), statement>>)}

RunEndsWithLastStatement ==
    \A after \in AfterReturn :
        (pc = "exit" /\ parser.statements \in ReturnThen(after.statement)) =>
            ret = after.value

\* a run() that is at its loop executes the next statement of its sequence, whatever
\* the statements before it were; one that has got the value of a statement, a return
\* included, keeps it as its result and goes back to the loop; and it returns its
\* result only when no statement is left
RunGoesOn ==
    Running("run") =>
        /\ (Top.pc = "loop" /\ Top.i <= Len(Top.ast)) =>
              stack' = Below \o <<[Top EXCEPT !.pc = "assign"],
                                  StatementFrame(Top.ids, Top.ast[Top.i])>>
        /\ Top.pc = "assign" =>
              stack' = Below \o <<[Top EXCEPT !.result = ret, !.i = @ + 1, !.pc = "loop"]>>
        /\ (Top.pc = "loop" /\ Top.i > Len(Top.ast)) => (stack' = Below /\ ret' = Top.result)

\* C3: a return does not end the sequence it is in: the statements after it are
\* executed in order, and run() returns the value of the last one; the sequence
\* return 1; 2 + 2;  yields 4, as a program and as the body of a called function
ReturnDoesNotEndRun == [][RunGoesOn]_vars /\ []RunEndsWithLastStatement

\* a function with the body  return 1; 2 + 2;  was called and the program ended with 4
ReturnThenSumCalled ==
    /\ pc = "exit"
    /\ parser.statements =
         CallOf(<<ReturnStatement(Num(1)), ExpressionStatement(Plus(Num(2), Num(2)))>>)
    /\ ret = Int32(4)

\* the map of every caller whose callee has not returned is as it was when the callee's
\* body started
CallerMapKept == \A k \in DOMAIN calls : heap[calls[k].ids] = calls[k].identifiers

\* the step that returns from a call of a user-defined function leaves the caller's
\* map as it was when the body started
CallReturnKeepsMap ==
    (Running("expression") /\ Top.pc = "call.run") =>
        heap'[Top.ids] = calls[Len(calls)].identifiers

\* C4: from the start of a callee's body until the call has returned, the caller's map
\* of names to values is the one it was at the start, whatever the body does
CalleeNeverMutatesCaller == []CallerMapKept /\ [][CallReturnKeepsMap]_vars

\* f's body assigned x and declared y, and after the call x is 1 and y unbound as before
CalleeAssignedAndDeclared ==
    /\ pc = "exit"
    /\ parser.statements =
         CallOf(<<ExpressionStatement(AssignmentExpression("x", Num(5))),
                  VariableStatement("y", IdentifierExpression("p"))>>)
    /\ heap[1]["x"] = Int32(1)
    /\ ~MapHas(heap[1], "y")

\* C5: a logical node evaluates both operands, so both assignments have happened when
\* the program (a = v) and/or (b = w) has ended, and yields v && w or v || w
LogicalEvaluatesBoth ==
    \A operator \in {Tk("AND", "and"), Tk("OR", "or")}, v \in 0..1, w \in 0..1 :
        (pc = "exit" /\ parser.statements = LogicalOf(operator, v, w)) =>
            /\ MapHas(heap[1], "a") /\ heap[1]["a"] = Int32(v)
            /\ MapHas(heap[1], "b") /\ heap[1]["b"] = Int32(w)
            /\ ret = IF operator.type = TokenType["AND"] THEN JsAnd(Int32(v), Int32(w))
                     ELSE JsOr(Int32(v), Int32(w))

\* C6: in  for (var i = 0; i < 1; i = i + 1) x = i;  the condition is checked after the
\* body has run (x is bound) only with the increment's effect in place: i is 1
ForIncrementVisible ==
    (/\ parser.statements = ForCounting
     /\ Running("statement")
     /\ Top.pc = "for.test"
     /\ MapHas(heap[1], "x")) => heap[1]["i"] = Int32(1)

\* C7: a for loop without a condition is not left at its test: the step after the
\* test enters the body
ForWithoutConditionGoesOn ==
    [][(Running("statement") /\ Top.pc = "for.test" /\ Top.statement.condition = Null) =>
          stack' = Below \o <<[Top EXCEPT !.pc = "for.increment"],
                              StatementFrame(Top.ids, Top.statement.body)>>]_vars

---------------------------------------------------------------------------
(* Claims about blocks, checked under SpecParseBlock *)

\* the blocks of the statements parse() has pushed: a block statement, the body of a
\* function, the then-branch of an if
ParsedBlocks ==
    LET pushed == {parser.statements[i] : i \in DOMAIN parser.statements}
    IN {s \in pushed : s.type = "block"}
       \cup {s.body : s \in {u \in pushed : u.type = "function"}}
       \cup {s.thenBranch : s \in {u \in pushed : u.type = "if"}}

BlockHoldsExpressionStatements ==
    \A block \in ParsedBlocks :
        block.type = "block" =>
            \A i \in DOMAIN block.statements : block.statements[i].type = "expression"

\* parse() of a block with a direct child that starts as var, if, while, for, return,
\* fun or { throws and reports an error
BlockWithOtherStatementThrows ==
    (/\ pc = "parse"
     /\ parser.current = 0
     /\ \E input \in BlockInputs :
           /\ parser.tokens = input.tokens \o <<TkEOF>>
           /\ \E i \in DOMAIN input.children : input.children[i].kind # "expression")
    => (pc' = "threw" /\ console' # <<>>)

\* C11: every statement of a parsed block (a block statement or a function body) is an
\* expression statement, and parsing a block that directly contains var, if, while, for,
\* return, fun or a nested { ends with a syntax error
BlockContract == []BlockHoldsExpressionStatements /\ [][BlockWithOtherStatementThrows]_vars

\* { x y ; var x ; } was refused at var, after its first child was parsed
BlockRefusedAtVar ==
    /\ pc = "threw"
    /\ [i \in DOMAIN parser.tokens |-> parser.tokens[i].lexeme]
         = <<"{", "x", "y", ";", "var", "x", ";", "}", "">>
    /\ parser.current = 4
    /\ console = <<[line |-> 1, column |-> 1, lexeme |-> "var",
                    message |-> "Expected expression."]>>

---------------------------------------------------------------------------
(* Claims about names and calls, checked under SpecEval *)

\* the step about to be taken evaluates an identifier expression
ReadsIdentifier ==
    /\ Running("expression")
    /\ Top.pc = "start"
    /\ Top.expression # Null
    /\ Top.expression.type = "identifier"

\* reading a name that is no key of the Map of the evaluator throws "Variable not
\* found: <name>", returns nothing and binds nothing; reading a key yields its value
ReadIdentifier ==
    ReadsIdentifier =>
        LET name == Top.expression.name.lexeme
        IN IF MapHas(heap[Top.ids], name)
           THEN pc' # "threw" /\ ret' = heap[Top.ids][name] /\ heap' = heap
           ELSE /\ pc' = "threw"
                /\ thrown' = Error("Variable not found: " \o name)
                /\ ret' = ret
                /\ heap' = heap

\* the names the step about to be taken binds in the Map of its evaluator: a variable
\* declaration, a function declaration, an assignment
BoundByStep ==
    IF Running("statement") /\ Top.pc = "variable.set" THEN {Top.statement.name.lexeme}
    ELSE IF /\ Running("statement")
            /\ Top.pc = "start"
            /\ Top.statement # Null
            /\ Top.statement.type = "function"
    THEN {Top.statement.name.lexeme}
    ELSE IF Running("expression") /\ Top.pc = "assignment.set"
    THEN {Top.expression.name.lexeme}
    ELSE {}

\* the parameter names of the function a call is about to enter
ParamsOfCallee ==
    IF Running("expression") /\ Top.pc \in {"call.callee", "call.args"}
    THEN LET calle == IF Top.pc = "call.callee" THEN ret ELSE Top.calle
         IN IF calle.js = "object" /\ MapHas(calle.node, "params")
            THEN {calle.node.params[i].lexeme : i \in DOMAIN calle.node.params}
            ELSE {}
    ELSE {}

\* a Map gets a key only from a declaration or an assignment in its evaluator; a new
\* Map holds the caller's keys, the parameters and print
KeysComeFromBindings ==
    pc = "run" =>
        \A k \in DOMAIN heap' :
            IF k \in DOMAIN heap
            THEN (DOMAIN heap'[k]) \ (DOMAIN heap[k]) \subseteq
                     (IF k = Top.ids THEN BoundByStep ELSE {})
            ELSE (DOMAIN heap'[k]) \subseteq
                     (DOMAIN heap[Top.ids]) \cup ParamsOfCallee \cup {"print"}

\* C12: evaluating an identifier whose name is not bound in the current environment
\* throws "Variable not found: <name>", yields no value and adds no binding; names
\* get bound only by variable and function declarations, assignments, parameter
\* binding and the built-in print
UnboundReadIsFatal == [][ReadIdentifier /\ KeysComeFromBindings]_vars

\* var y = p; as a program: the read of p threw and y was not bound
UnboundReadThrew ==
    /\ pc = "threw"
    /\ parser.statements = <<VariableStatement("y", IdentifierExpression("p"))>>
    /\ thrown = Error("Variable not found: p")
    /\ ~MapHas(heap[1], "y")

\* the step about to be taken is in the call case with the callee evaluated
InCallCase == Running("expression") /\ Top.pc \in {"call.callee", "call.args"}

\* the callee of that call, and its arguments evaluated so far
Callee == IF Top.pc = "call.callee" THEN ret ELSE Top.calle
ArgsSoFar == IF Top.pc = "call.callee" THEN Top.args ELSE Append(Top.args, ret)

\* a call of null, a boolean, a number or a string first evaluates every argument
\* and then throws, with no evaluator made or run
CallOfNonFunction ==
    (InCallCase /\ Callee.js \in {"null", "boolean", "number", "string"}) =>
        IF Len(ArgsSoFar) < Len(Top.expression.args)
        THEN /\ pc' = "run"
             /\ stack' = Below \o
                   <<[Top EXCEPT !.calle = Callee, !.args = ArgsSoFar, !.pc = "call.args"],
                     ExpressionFrame(Top.ids, Top.expression.args[Len(ArgsSoFar) + 1])>>
        ELSE /\ pc' = "threw"
             /\ thrown' # NoError
             /\ stack' = <<>>
             /\ console' = console

\* C13: calling null, a boolean, a number or a string throws; the callee and all the
\* arguments are evaluated before that, and no function body and no new evaluator is
\* run
NonCallableIsFatal == [][CallOfNonFunction]_vars

\* var f = 1; f(a = 1, b = 2); threw after both arguments were evaluated
NumberCalled ==
    /\ pc = "threw"
    /\ parser.statements =
         CallOn(VariableStatement("f", Num(1)),
                <<AssignmentExpression("a", Num(1)), AssignmentExpression("b", Num(2))>>)
    /\ thrown.name = "TypeError"
    /\ heap[1]["a"] = Int32(1)
    /\ heap[1]["b"] = Int32(2)

\* the step about to be taken starts the body of a user-defined function
EntersBody ==
    /\ InCallCase
    /\ Len(ArgsSoFar) = Len(Top.expression.args)
    /\ Callee.js = "object"
    /\ Len(stack') = Len(stack) + 1
    /\ pc' = "run"

\* in the evaluator of the body every parameter reads as its argument, and as
\* undefined where the call passed fewer arguments
ParametersBound ==
    EntersBody =>
        LET params == Callee.node.params
            identifiers == heap'[stack'[Len(stack')].ids]
        IN \A i \in DOMAIN params :
               /\ MapHas(identifiers, params[i].lexeme)
               /\ identifiers[params[i].lexeme] =
                      IF i <= Len(ArgsSoFar) THEN ArgsSoFar[i] ELSE Undefined

\* C14: at the start of the body of a called user-defined function every parameter
\* name, print included, is bound to the argument at its position, or to undefined
\* when the call passed fewer arguments
ParameterBinding == [][ParametersBound]_vars


(* A claim about the lexer's position, checked under SpecLex *)

\* C15: on a source of one line the column counter is, between any two tokens and at
\* the end, 1 plus the number of characters consumed so far, the second character of
\* !=, ==, >=, => and of // counted like any other
ColumnCountsConsumed ==
    (\A i \in DOMAIN lexer.source : lexer.source[i] # "\n") =>
        lexer.column = 1 + lexer.current


(* Claims about the parser's cursor and operands, checked under SpecParseOperand *)

\* the index of the first token of the end-of-input kind
FirstEOF == CHOOSE i \in 0..(Len(parser.tokens) - 1) :
                /\ parser.tokens[i + 1].type = TokenType["EOF"]
                /\ \A j \in 0..(i - 1) : parser.tokens[j + 1].type # TokenType["EOF"]

CursorInRange == parser.current >= 0 /\ parser.current <= FirstEOF

\* a turn of parse()'s loop, one call of statement(), moves the cursor on or throws
StatementMovesOn ==
    (pc = "parse" /\ ~AST_isAtEnd(parser)) =>
        \/ pc' = "threw"
        \/ pc' = "parse" /\ parser'.current > parser.current
               /\ Len(parser'.statements) = Len(parser.statements) + 1

\* C16: on every token sequence that ends with an end-of-input token parse() returns
\* or throws; the cursor stays between 0 and the first end-of-input token, and every
\* top-level call of statement() moves the cursor on or throws
ParserTerminates ==
    /\ []CursorInRange
    /\ [][StatementMovesOn]_vars
    /\ <>(pc \in {"run", "threw"})

\* 1 2 ; eof was parsed up to the word eof: parse() returned one statement with the
\* cursor on the first end-of-input token, one token before the last
StoppedAtFirstEOF ==
    /\ pc = "run"
    /\ Len(parser.tokens) = 5
    /\ parser.tokens[4].lexeme = "eof"
    /\ parser.current = 3
    /\ Len(parser.statements) = 1

\* the first statement is about to be parsed; it starts with a primary P1 that no
\* INCREMENT or DECREMENT token follows
OperandWithoutPostfix ==
    /\ pc = "parse"
    /\ parser.current = 0
    /\ parser.tokens[1].type = TokenType["NUMBER"]
    /\ parser.tokens[2].type \notin {TokenType["INCREMENT"], TokenType["DECREMENT"]}

\* the token after P1
Follower == parser.tokens[2]

\* statement() threw at the token after P1 with "Expected expression."
RaisedAtFollower ==
    /\ pc' = "threw"
    /\ parser'.current = 1
    /\ console' = <<[line |-> Follower.line, column |-> Follower.column,
                     lexeme |-> Follower.lexeme, message |-> "Expected expression."]>>

\* statement() threw with "Expected expression."
RaisedExpected ==
    /\ pc' = "threw"
    /\ console' # <<>>
    /\ console'[Len(console')].message = "Expected expression."

\* what statement() does is what it does with any other primary in P1's place: P1 is
\* consumed and is no part of the outcome
FirstPrimaryDiscarded ==
    \A other \in {TkNumber(1), TkNumber(2)} :
        \E parsed \in {AST_parseStatement([tokens |-> [parser.tokens EXCEPT ![1] = other],
                                           current |-> 0, console |-> console])} :
            /\ parsed.threw = (pc' = "threw")
            /\ parsed.ast.current = parser'.current
            /\ parsed.ast.console = console'
            /\ ~parsed.threw => parser'.statements = <<parsed.node>>
            /\ parser'.current >= 1

\* P1 P2 ; is the expression statement of P2 alone
SecondPrimaryKept ==
    (Follower.type = TokenType["NUMBER"] /\ parser.tokens[3].type = TokenType["SEMICOLON"]) =>
        /\ pc' = "parse"
        /\ parser'.current = 3
        /\ parser'.statements =
               <<ExpressionStatement([type |-> "literal", value |-> Follower.literal])>>

\* P1 + P2 ; is the expression statement of the prefix expression + P2
PrefixOperatorTaken ==
    (/\ Follower.type = TokenType["PLUS"]
     /\ parser.tokens[3].type = TokenType["NUMBER"]
     /\ parser.tokens[4].type = TokenType["SEMICOLON"]) =>
        /\ pc' = "parse"
        /\ parser'.current = 4
        /\ parser'.statements =
               <<ExpressionStatement(
                     [type |-> "unary", operator |-> Follower,
                      right |-> [type |-> "literal", value |-> parser.tokens[3].literal]])>>

====
